---- MODULE Spec2Model ----
(***************************************************************************)
(* Model of imgur-downloader (src/src/main.rs).                            *)
(*                                                                         *)
(* Spec     one run of main_: the album request, the directory creation,   *)
(*          the for_each_concurrent(2, ..) fan-out of download_media tasks *)
(*          and the final "Done".  Every await of a task is one step; the  *)
(*          file system and the servers answer nondeterministically.       *)
(* SpecArg  extract_album_id_from_argument / parse_album_argument applied  *)
(*          to every argument string up to MaxArgLen characters.           *)
(* SpecName digits_in_decmial_representation and file_name applied to      *)
(*          small numbers and to numbers around the powers of ten.         *)
(* SpecLive Spec from an absent directory, with weak fairness of Next.     *)
(* SpecRuns consecutive runs over the same album and the same directory,   *)
(*          each media response carrying the item's true body.             *)
(***************************************************************************)
EXTENDS Integers, Sequences, FiniteSets, TLC

\* ------------------------------------------------------------------ bounds
\* Largest number of media entries in an album response.
MaxItems == 3
\* Largest byte count: of a reported size, a response body, an existing file.
MaxSize == 2
\* Longest command line argument, in characters.
MaxArgLen == 4
\* SpecName: the numbers 0..MaxSmall, and those within MaxNear of 10^k for
\* k up to MaxPow, are given to the naming functions.
MaxSmall == 12
MaxPow == 8
MaxNear == 6
\* SpecRuns: largest number of media entries of the album that is run again.
MaxRunItems == 2

\* Variant: no limit (for_each_concurrent(None, ..)).
Limit_none == MaxItems + 1

\* The limit passed to for_each_concurrent.
Limit == 2

VARIABLES
    probe,      \* SpecName: one call of digits_in_decmial_representation or file_name
    server,     \* SpecRuns: the album the server holds: index -> [size, len, ext]
    arg,        \* SpecArg: the command line argument (a sequence of characters)
    parsed,     \* SpecArg: result of parse_album_argument, or NotParsed
    pc,         \* position of main_: start, mkdir, stream, done, exit
    result,     \* value returned by main_: "none" while running, "Ok", "Err(..)"
    albumResp,  \* what the album request was answered with, "none" before
    created,    \* create_dir_all has been called
    album,      \* album.media: index -> [size, ext]; empty before get_album returns
    next,       \* number of items the stream has handed to for_each_concurrent
    dir,        \* the destination directory exists
    files,      \* the directory's content: path -> [exists, data]
    tpc,        \* per item: position of its task inside download_media
    outcome,    \* per item: how its task ended
    pos,        \* per item: write position of the task's file handle
    resp,       \* per item: the media response being read: [status, len]
    opened,     \* items whose destination file has been opened
    requests,   \* items for which a media GET has been sent
    printed     \* the lines printed so far

vars == <<probe, server, arg, parsed, pc, result, albumResp, created, album, next, dir, files,
          tpc, outcome, pos, resp, opened, requests, printed>>

runVars == <<pc, result, albumResp, created, album, next, dir, files, tpc,
             outcome, pos, resp, opened, requests, printed>>

\* ------------------------------------------------- album id (lines 17-36)
AlNum == {"a", "Z", "7"}
Chars == AlNum \cup {"/", "."}

is_ascii_alphanumeric(s) == \A k \in 1..Len(s) : s[k] \in AlNum

\* Variant: str::find, the first '/' instead of the last.
find_slash(s) ==
    LET hits == {k \in 1..Len(s) : s[k] = "/"}
    IN  IF hits = {} THEN -1 ELSE (CHOOSE k \in hits : \A h \in hits : k <= h) - 1

\* str::rfind('/'): the largest 0-based index holding '/', or -1 for None.
rfind_slash(s) ==
    LET hits == {k \in 1..Len(s) : s[k] = "/"}
    IN  IF hits = {} THEN -1 ELSE (CHOOSE k \in hits : \A h \in hits : h <= k) - 1

None == [some |-> FALSE, id |-> <<>>]
Some(s) == [some |-> TRUE, id |-> s]

\* Variant: the segment after the last '/' is not checked for emptiness.
extract_unchecked_segment(s) ==
    IF is_ascii_alphanumeric(s) /\ Len(s) # 0
    THEN Some(s)
    ELSE IF rfind_slash(s) = -1
         THEN None
         ELSE LET t == SubSeq(s, rfind_slash(s) + 2, Len(s))
              IN  IF is_ascii_alphanumeric(t) THEN Some(t) ELSE None

\* s.get(i + 1..) is never None here: '/' is one byte long, so i + 1 is a
\* character boundary no larger than the length.
extract_album_id_from_argument(s) ==
    IF is_ascii_alphanumeric(s) /\ Len(s) # 0
    THEN Some(s)
    ELSE IF rfind_slash(s) = -1
         THEN None
         ELSE LET t == SubSeq(s, rfind_slash(s) + 2, Len(s))
              IN  IF is_ascii_alphanumeric(t) /\ Len(t) # 0 THEN Some(t) ELSE None

Ok(v) == [ok |-> TRUE, value |-> v, err |-> "none"]
Err(e) == [ok |-> FALSE, value |-> <<>>, err |-> e]
NotParsed == [ok |-> FALSE, value |-> <<>>, err |-> "not parsed"]

parse_album_argument(s) ==
    LET o == extract_album_id_from_argument(s)
    IN  IF o.some THEN Ok(o.id) ELSE Err("invalid album")

\* ------------------------------------------------ file names (lines 68-82)
RECURSIVE Pow2(_)
Pow2(e) == IF e = 0 THEN 1 ELSE 2 * Pow2(e - 1)

RECURSIVE Pow10(_)
Pow10(k) == IF k = 0 THEN 1 ELSE 10 * Pow10(k - 1)

RECURSIVE Decimal(_)
Decimal(n) == IF n < 10 THEN <<n>> ELSE Append(Decimal(n \div 10), n % 10)

\* The number of low bits an integer loses in an f32 (24 significant bits).
RECURSIVE f32_shift(_)
f32_shift(n) == IF n < 16777216 THEN 0 ELSE 1 + f32_shift(n \div 2)

\* `n as f32` (line 72): round to nearest, ties to even.
as_f32(n) ==
    LET p == Pow2(f32_shift(n))
        q == n \div p
        r == n % p
    IN  IF 2 * r > p \/ (2 * r = p /\ q % 2 = 1) THEN (q + 1) * p ELSE q * p

\* How far below 10^d an f32 x may lie for (x.log10() + 1.0).floor() to be
\* d + 1: log10 rounded to nearest f32 is d from 10^7 on (x within 5 of
\* 10^7, within 1098 of 10^9), and for d = 8 the sum 8 - 2^-21 + 1.0 is
\* rounded up to 9 as well.  Below 10^7 - 5 nothing rounds up.
round_up_margin(d) ==
    IF d = 7 THEN 5 ELSE IF d = 8 THEN 164 ELSE IF d = 9 THEN 1098 ELSE 0

\* (x.log10() + 1.0).floor() as usize for an integer valued f32 x >= 1
\* (line 72), with log10 and the addition correctly rounded.
log10_plus_1_floor(x) ==
    LET d == Len(Decimal(x))
    IN  IF round_up_margin(d) = 0 THEN d
        ELSE IF Pow10(d) - x <= round_up_margin(d) THEN d + 1 ELSE d

\* Variant: the digits counted by integer division.
digits_by_division(n) == Len(Decimal(n))

digits_in_decmial_representation(n) ==
    IF n = 0 THEN 1 ELSE log10_plus_1_floor(as_f32(n))

Zeroes(k) == [j \in 1..k |-> 0]

\* What a call that panics yields: the assertion of line 76, or the usize
\* subtraction of line 79 going below zero.
Panic == <<(<<>>), "panic">>

\* Variant: only the last digit of the index is formatted.
file_name_last_digit(ext, index, media_count) ==
    <<Zeroes(digits_in_decmial_representation(media_count - 1) - 1)
          \o <<index % 10>>, ext>>

file_name(ext, index, media_count) ==
    IF ~(index < media_count)
    THEN Panic
    ELSE LET max_digits == digits_in_decmial_representation(media_count - 1)
             index_digits == digits_in_decmial_representation(index)
             leading_zeroes == max_digits - index_digits
         IN  IF leading_zeroes < 0
             THEN Panic
             ELSE <<Zeroes(leading_zeroes) \o Decimal(index), ext>>

\* --------------------------------------------------------- the file system
Exts == {"jpg"}
Paths == UNION {{file_name(e, i, n) : e \in Exts, i \in 0..(n - 1)} : n \in 1..MaxItems}

NoFile == [exists |-> FALSE, data |-> <<>>]
File(d) == [exists |-> TRUE, data |-> d]

\* Bytes that were on disk before the run.
OldData(k) == [j \in 1..k |-> <<"old", 0, j>>]
\* The body the server sends for item i, k bytes long.
Body(status, i, k) == [j \in 1..k |-> <<status, i, j>>]

\* AsyncWrite at position p of a file: overwrite in place, extend at the end.
WriteAt(d, p, b) == IF p < Len(d) THEN [d EXCEPT ![p + 1] = b] ELSE Append(d, b)

\* ------------------------------------------- calls of the naming functions
NoName == <<(<<>>), "none">>

NoProbe == [fn |-> "none", n |-> 0, count |-> 0, index |-> 0, index2 |-> 0,
            ext |-> "none", ext2 |-> "none", called |-> FALSE,
            digits |-> 0, name |-> NoName, name2 |-> NoName]

ProbeNumbers ==
    (0..MaxSmall) \cup
    {Pow10(k) + d : k \in 1..MaxPow, d \in (0 - MaxNear)..MaxNear}

NameExts == {"jpg", "png"}

\* Calls digits_in_decmial_representation(n).
DigitProbe(n) == [NoProbe EXCEPT !.fn = "digits", !.n = n]

\* Calls file_name for two indices of an album of `count` items, as lines
\* 153-157 do: the indices that enumerate() gives are below the count.
NameProbe(count, i, j, e, f) ==
    [NoProbe EXCEPT !.fn = "file_name", !.count = count, !.index = i,
                    !.index2 = j, !.ext = e, !.ext2 = f]

\* ------------------------------------------------------- derived state
Items == DOMAIN album
media_count == Cardinality(Items)
\* Variant: the index counted from one.
Path_one_based(i) == file_name(album[i].ext, i + 1, media_count)

\* The path of item i: file_name(&media, index, media_count) (lines 156-157).
Path(i) == file_name(album[i].ext, i, media_count)

\* Futures held by for_each_concurrent: created and not yet completed.
Running == {i \in Items : tpc[i] \notin {"queued", "finished"}}
Finished == {i \in Items : tpc[i] = "finished"}

ArgStrings == UNION {[1..n -> Chars] : n \in 0..MaxArgLen}

\* ------------------------------------------------------------------ Init
RunInit ==
    /\ pc = "start"
    /\ result = "none"
    /\ albumResp = "none"
    /\ created = FALSE
    /\ album = <<>>
    /\ next = 0
    /\ dir \in BOOLEAN
    /\ files \in [Paths -> {NoFile} \cup {File(OldData(k)) : k \in 0..MaxSize}]
    /\ ~dir => \A p \in Paths : files[p] = NoFile
    /\ tpc = <<>>
    /\ outcome = <<>>
    /\ pos = <<>>
    /\ resp = <<>>
    /\ opened = {}
    /\ requests = {}
    /\ printed = {}

\* main (lines 126-133): clap has parsed the argument before main_ runs.
Init ==
    /\ probe = NoProbe
    /\ server = <<>>
    /\ arg = <<"a">>
    /\ parsed = parse_album_argument(arg)
    /\ RunInit

\* -------------------------------------------- main_ (lines 135-172)
NoResp == [status |-> "none", len |-> 0]

AlbumAnswers == {"send_err", "bad_status", "bad_json", "ok"}

\* Variant: get_album without error_for_status, an error page that parses.
get_album_any_status(answer) ==
    IF answer \in {"ok", "bad_status"} THEN "Ok" ELSE "Err(" \o answer \o ")"

\* get_album (lines 50-57): send().await?, error_for_status()?, json().
get_album(answer) == IF answer = "ok" THEN "Ok" ELSE "Err(" \o answer \o ")"

\* The albums the API may describe: up to MaxItems items of any sizes.
Albums ==
    UNION {{[i \in 0..(n - 1) |-> [size |-> sizes[i], ext |-> "jpg"]] :
               sizes \in [0..(n - 1) -> 0..MaxSize]} : n \in 0..MaxItems}

\* main_ up to line 142: the album request, answered with one of `albums`;
\* an Err leaves main_ through `?`.
GetAlbumOf(albums) ==
    /\ pc = "start"
    /\ parsed.ok
    /\ \E answer \in AlbumAnswers :
          /\ albumResp' = answer
          /\ IF get_album(answer) = "Ok"
             THEN \E a \in albums :
                     /\ album' = a
                     /\ tpc' = [i \in DOMAIN a |-> "queued"]
                     /\ outcome' = [i \in DOMAIN a |-> "none"]
                     /\ pos' = [i \in DOMAIN a |-> 0]
                     /\ resp' = [i \in DOMAIN a |-> NoResp]
                     /\ pc' = "mkdir"
                     /\ UNCHANGED result
             ELSE /\ pc' = "exit"
                  /\ result' = get_album(answer)
                  /\ UNCHANGED <<album, tpc, outcome, pos, resp>>
    /\ printed' = printed \cup {<<"Retrieving">>}
    /\ UNCHANGED <<probe, server, arg, parsed, created, next, dir, files, opened, requests>>

GetAlbum == GetAlbumOf(Albums)

\* fs::create_dir_all(destination).await? and the line printed after it
\* (lines 143-149)
CreateDir ==
    /\ pc = "mkdir"
    /\ created' = TRUE
    /\ \E ok \in BOOLEAN :
          IF ok
          THEN /\ dir' = TRUE
               /\ pc' = "stream"
               /\ printed' = printed \cup {<<"Downloading files", media_count>>}
               /\ UNCHANGED result
          ELSE /\ pc' = "exit"
               /\ result' = "Err(create_dir_all)"
               /\ UNCHANGED <<dir, printed>>
    /\ UNCHANGED <<probe, server, arg, parsed, albumResp, album, next, files, tpc, outcome, pos,
                   resp, opened, requests>>

\* Variant: one item after the other, the next future is created once the
\* previous one has completed.
StartTask_sequential ==
    /\ pc = "stream"
    /\ next < media_count
    /\ Running = {}
    /\ tpc' = [tpc EXCEPT ![next] = "open"]
    /\ next' = next + 1
    /\ UNCHANGED <<probe, server, arg, parsed, pc, result, albumResp, created, album, dir,
                   files, outcome, pos, resp, opened, requests, printed>>

\* for_each_concurrent(2, ..) takes the next item off the stream while it
\* holds fewer than Limit futures, and creates the item's future.
StartTask ==
    /\ pc = "stream"
    /\ next < media_count
    /\ Cardinality(Running) < Limit
    /\ tpc' = [tpc EXCEPT ![next] = "open"]
    /\ next' = next + 1
    /\ UNCHANGED <<probe, server, arg, parsed, pc, result, albumResp, created, album, dir,
                   files, outcome, pos, resp, opened, requests, printed>>

\* Variant: the error leaves the fan-out (try_for_each_concurrent and `?`):
\* the futures still held are dropped.
FailTask_abort(i, e) ==
    /\ tpc' = [j \in Items |-> IF j = i \/ j \in Running THEN "finished" ELSE tpc[j]]
    /\ outcome' = [j \in Items |->
                      IF j = i \/ j \in Running THEN "failed" ELSE outcome[j]]
    /\ printed' = printed \cup {<<"Failed", i, e>>}
    /\ UNCHANGED <<pc, result>>

\* Variant: the failed future is never completed, its slot stays taken.
FailTask_slot_kept(i, e) ==
    /\ tpc' = [tpc EXCEPT ![i] = "failed"]
    /\ outcome' = [outcome EXCEPT ![i] = "failed"]
    /\ printed' = printed \cup {<<"Failed", i, e>>}
    /\ UNCHANGED <<pc, result>>

\* download_media returned Err(e): lines 158-165 print it and the item's
\* future ends; nothing is returned to for_each_concurrent.
FailTask(i, e) ==
    /\ tpc' = [tpc EXCEPT ![i] = "finished"]
    /\ outcome' = [outcome EXCEPT ![i] = "failed"]
    /\ printed' = printed \cup {<<"Failed", i, e>>}
    /\ UNCHANGED <<pc, result>>

\* Variant: OpenOptions with truncate(true).
open_truncating(f) == File(<<>>)

\* What open() with create(true).write(true) leaves on disk (lines 85-88).
open_create_write(f) == IF f.exists THEN f ELSE File(<<>>)

\* OpenOptions::new().create(true).write(true).open(destination) (lines 85-89)
Open(i) ==
    /\ i \in Items
    /\ tpc[i] = "open"
    /\ \E ok \in BOOLEAN :
          IF ok /\ dir
          THEN /\ files' = [files EXCEPT ![Path(i)] = open_create_write(@)]
               /\ opened' = opened \cup {i}
               /\ tpc' = [tpc EXCEPT ![i] = "metadata"]
               /\ UNCHANGED <<outcome, printed, pc, result>>
          ELSE /\ FailTask(i, "open")
               /\ UNCHANGED <<files, opened>>
    /\ UNCHANGED <<probe, server, arg, parsed, albumResp, created, album, next, dir, pos, resp,
                   requests>>

\* Variant: a file at least as long as the reported size is kept.
skip_at_least(size, file_len) == file_len >= size

\* Variant: a file no longer than the reported size is kept.
skip_at_most(size, file_len) == file_len <= size

\* if media.size == metadata.len() (line 91)
skip_decision(size, file_len) == size = file_len

\* file.metadata().await?.len() and the size comparison (lines 90-96)
Metadata(i) ==
    /\ i \in Items
    /\ tpc[i] = "metadata"
    /\ \E ok \in BOOLEAN :
          IF ~ok
          THEN FailTask(i, "metadata")
          ELSE IF skip_decision(album[i].size, Len(files[Path(i)].data))
               THEN /\ tpc' = [tpc EXCEPT ![i] = "finished"]
                    /\ outcome' = [outcome EXCEPT ![i] = "skipped"]
                    /\ printed' = printed \cup {<<"Skipping", i>>}
                    /\ UNCHANGED <<pc, result>>
               ELSE /\ tpc' = [tpc EXCEPT ![i] = "set_len"]
                    /\ UNCHANGED <<outcome, printed, pc, result>>
    /\ UNCHANGED <<probe, server, arg, parsed, albumResp, created, album, next, dir, files, pos,
                   resp, opened, requests>>

\* Variant: the file is not truncated.
set_len_skipped(f) == f

\* set_len(0) on the open file (line 97): the file's content after it.
set_len_0(f) == File(<<>>)

\* file.set_len(0).await?, the "Downloading" line, and the GET that get_media
\* sends (lines 97-103, 60)
SetLen(i) ==
    /\ i \in Items
    /\ tpc[i] = "set_len"
    /\ \E ok \in BOOLEAN :
          IF ok
          THEN /\ files' = [files EXCEPT ![Path(i)] = set_len_0(@)]
               /\ printed' = printed \cup {<<"Downloading", i>>}
               /\ requests' = requests \cup {i}
               /\ tpc' = [tpc EXCEPT ![i] = "send"]
               /\ UNCHANGED <<outcome, pc, result>>
          ELSE /\ FailTask(i, "set_len")
               /\ UNCHANGED <<files, requests>>
    /\ UNCHANGED <<probe, server, arg, parsed, albumResp, created, album, next, dir, pos, resp,
                   opened>>

Statuses == {"ok", "bad"}

\* get_media (lines 59-66): Ok(reader) for whatever response arrives, its
\* status is not looked at; Err only when send() itself fails.
get_media(answer, status) == IF answer = "response" THEN "Ok" ELSE "Err(send)"

\* let mut reader = get_media(media, client).await? (line 103); a response
\* has one of `statuses` and a body of one of the lengths `lens`.
GetMediaOf(i, statuses, lens) ==
    /\ i \in Items
    /\ tpc[i] = "send"
    /\ \E answer \in {"send_err", "response"}, st \in statuses, n \in lens :
          IF get_media(answer, st) = "Ok"
          THEN /\ resp' = [resp EXCEPT ![i] = [status |-> st, len |-> n]]
               /\ tpc' = [tpc EXCEPT ![i] = "copy"]
               /\ UNCHANGED <<outcome, printed, pc, result>>
          ELSE /\ FailTask(i, "send")
               /\ UNCHANGED resp
    /\ UNCHANGED <<probe, server, arg, parsed, albumResp, created, album, next, dir, files, pos,
                   opened, requests>>

GetMedia(i) == GetMediaOf(i, Statuses, 0..MaxSize)

\* io::copy(&mut reader, &mut file) (line 104): one chunk read and written.
CopyChunk(i) ==
    /\ i \in Items
    /\ tpc[i] = "copy"
    /\ pos[i] < resp[i].len
    /\ files' = [files EXCEPT ![Path(i)] =
                    File(WriteAt(@.data, pos[i],
                                 Body(resp[i].status, i, resp[i].len)[pos[i] + 1]))]
    /\ pos' = [pos EXCEPT ![i] = @ + 1]
    /\ UNCHANGED <<probe, server, arg, parsed, pc, result, albumResp, created, album, next, dir,
                   tpc, outcome, resp, opened, requests, printed>>

\* io::copy: the stream or the write returns an error.
CopyFail(i) ==
    /\ i \in Items
    /\ tpc[i] = "copy"
    /\ FailTask(i, "copy")
    /\ UNCHANGED <<probe, server, arg, parsed, albumResp, created, album, next, dir, files, pos,
                   resp, opened, requests>>

\* io::copy: the stream ends, download_media returns Ok(()) (line 105).
CopyEof(i) ==
    /\ i \in Items
    /\ tpc[i] = "copy"
    /\ pos[i] = resp[i].len
    /\ tpc' = [tpc EXCEPT ![i] = "finished"]
    /\ outcome' = [outcome EXCEPT ![i] = "downloaded"]
    /\ UNCHANGED <<probe, server, arg, parsed, pc, result, albumResp, created, album, next, dir,
                   files, pos, resp, opened, requests, printed>>

\* Variant: a failed item makes the run fail.
main_result_strict(outcomes) ==
    IF \E i \in DOMAIN outcomes : outcomes[i] = "failed" THEN "Err(item)" ELSE "Ok"

\* The value main_ returns once for_each_concurrent has completed (line 171).
main_result(outcomes) == "Ok"

\* Variant: completion as soon as the stream is exhausted.
PrintDone_early ==
    /\ pc = "stream"
    /\ next = media_count
    /\ pc' = "done"
    /\ result' = main_result(outcome)
    /\ printed' = printed \cup {<<"Done">>}
    /\ UNCHANGED <<probe, server, arg, parsed, albumResp, created, album, next, dir, files, tpc,
                   outcome, pos, resp, opened, requests>>

\* for_each_concurrent completes: stream exhausted, no future left (lines 168-171)
PrintDone ==
    /\ pc = "stream"
    /\ next = media_count
    /\ Running = {}
    /\ pc' = "done"
    /\ result' = main_result(outcome)
    /\ printed' = printed \cup {<<"Done">>}
    /\ UNCHANGED <<probe, server, arg, parsed, albumResp, created, album, next, dir, files, tpc,
                   outcome, pos, resp, opened, requests>>

AllItems == 0..(MaxItems - 1)

Next ==
    \/ GetAlbum
    \/ CreateDir
    \/ StartTask
    \/ \E i \in AllItems : Open(i)
    \/ \E i \in AllItems : Metadata(i)
    \/ \E i \in AllItems : SetLen(i)
    \/ \E i \in AllItems : GetMedia(i)
    \/ \E i \in AllItems : CopyChunk(i)
    \/ \E i \in AllItems : CopyFail(i)
    \/ \E i \in AllItems : CopyEof(i)
    \/ PrintDone

Spec == Init /\ [][Next]_vars

\* --------------------------------------------- a run that keeps going
\* The run starts without a destination directory.  Every operation that is
\* awaited returns and the executor polls the futures it holds: some step
\* is taken as long as one is possible.
InitLive == Init /\ ~dir

SpecLive == InitLive /\ [][Next]_vars /\ WF_vars(Next)

\* ------------------------------------------------- consecutive runs
\* The album as the server holds it: the size the API reports for each item
\* and the length of the body the media URL serves.
ServerAlbums ==
    UNION {[0..(n - 1) -> [size : 0..MaxSize, len : 0..MaxSize, ext : {"jpg"}]] :
              n \in 1..MaxRunItems}

\* What the API reports of the server's album (MediaResponse, lines 43-48).
Reported == [i \in DOMAIN server |-> [size |-> server[i].size, ext |-> server[i].ext]]

\* The path of the server's item i in any run.
ServerPath(i) == file_name(server[i].ext, i, Cardinality(DOMAIN server))

\* The first run starts without a destination directory.
InitRuns ==
    /\ probe = NoProbe
    /\ server \in ServerAlbums
    /\ arg = <<"a">>
    /\ parsed = parse_album_argument(arg)
    /\ RunInit
    /\ ~dir

GetAlbumRuns == GetAlbumOf({Reported})

\* The media URL serves the item's body, or the connection fails.
GetMediaRuns(i) == i \in DOMAIN server /\ GetMediaOf(i, {"ok"}, {server[i].len})

\* The process has ended and the program is started again with the same
\* arguments (main, lines 126-133): only the directory is kept.
Rerun ==
    /\ pc \in {"done", "exit"}
    /\ pc' = "start"
    /\ result' = "none"
    /\ albumResp' = "none"
    /\ created' = FALSE
    /\ album' = <<>>
    /\ next' = 0
    /\ tpc' = <<>>
    /\ outcome' = <<>>
    /\ pos' = <<>>
    /\ resp' = <<>>
    /\ opened' = {}
    /\ requests' = {}
    /\ printed' = {}
    /\ UNCHANGED <<probe, server, arg, parsed, dir, files>>

NextRuns ==
    \/ GetAlbumRuns
    \/ CreateDir
    \/ StartTask
    \/ \E i \in AllItems : Open(i)
    \/ \E i \in AllItems : Metadata(i)
    \/ \E i \in AllItems : SetLen(i)
    \/ \E i \in AllItems : GetMediaRuns(i)
    \/ \E i \in AllItems : CopyChunk(i)
    \/ \E i \in AllItems : CopyFail(i)
    \/ \E i \in AllItems : CopyEof(i)
    \/ PrintDone
    \/ Rerun

SpecRuns == InitRuns /\ [][NextRuns]_vars

\* ------------------------------------------------ argument parsing alone
InitArg ==
    /\ probe = NoProbe
    /\ server = <<>>
    /\ arg \in ArgStrings
    /\ parsed = NotParsed
    /\ RunInit
    /\ ~dir

\* Args::parse() applies parse_album_argument to the argument (line 122).
Parse ==
    /\ parsed = NotParsed
    /\ parsed' = parse_album_argument(arg)
    /\ UNCHANGED <<probe, server, arg, runVars>>

NextArg == Parse

SpecArg == InitArg /\ [][NextArg]_vars

\* ------------------------------------------- the naming functions alone
InitName ==
    /\ \/ \E n \in ProbeNumbers : probe = DigitProbe(n)
       \/ \E m \in ProbeNumbers :
             \E i \in {x \in ProbeNumbers : x <= m},
                j \in {x \in (0..MaxSmall) \cup {m} : x <= m},
                e \in NameExts, f \in NameExts :
                 probe = NameProbe(m + 1, i, j, e, f)
    /\ server = <<>>
    /\ arg = <<"a">>
    /\ parsed = parse_album_argument(arg)
    /\ RunInit
    /\ ~dir

\* digits_in_decmial_representation(n) (lines 68-73)
CallDigits ==
    /\ probe.fn = "digits"
    /\ ~probe.called
    /\ probe' = [probe EXCEPT !.called = TRUE,
                              !.digits = digits_in_decmial_representation(probe.n)]
    /\ UNCHANGED <<server, arg, parsed, runVars>>

\* file_name(&media, index, media_count) (lines 75-82, called on line 157)
CallFileName ==
    /\ probe.fn = "file_name"
    /\ ~probe.called
    /\ probe' = [probe EXCEPT
                    !.called = TRUE,
                    !.name = file_name(probe.ext, probe.index, probe.count),
                    !.name2 = file_name(probe.ext2, probe.index2, probe.count)]
    /\ UNCHANGED <<server, arg, parsed, runVars>>

NextName == CallDigits \/ CallFileName

SpecName == InitName /\ [][NextName]_vars

\* ================================================================ claims
Ended == {"skipped", "downloaded", "failed"}

\* The destination file of item i exists with the reported size.
Matches(i) ==
    /\ files[Path(i)].exists
    /\ Len(files[Path(i)].data) = album[i].size

\* The destination file of item i holds the whole body of its response.
HoldsBody(i) == files[Path(i)] = File(Body(resp[i].status, i, resp[i].len))

\* ---------------------------------------------------------------- C1
C1_FailStep ==
    \A i \in Items :
        (outcome[i] # "failed" /\ outcome'[i] = "failed") =>
            /\ \A j \in Items \ {i} :
                  /\ tpc'[j] = tpc[j]
                  /\ outcome'[j] = outcome[j]
                  /\ pos'[j] = pos[j]
                  /\ resp'[j] = resp[j]
                  /\ files'[Path(j)] = files[Path(j)]
            /\ pc' = pc
            /\ result' = result
            /\ next' = next

C1_Others ==
    \A i \in Items : \A j \in Items \ {i} :
        (pc = "done" /\ outcome[i] = "failed") =>
            /\ outcome[j] \in Ended
            /\ outcome[j] = "downloaded" => HoldsBody(j)

\* C1: the step in which an item's task fails (at open, metadata, set_len,
\* send or copy) changes nothing of any other item's task, of its file, or of
\* main_; and when the batch is done with a failed item, every other item has
\* its own outcome, a downloaded one with its full body on disk.
C1_FailureIsolation == [][C1_FailStep]_vars /\ []C1_Others

\* One of three items failed, the other two were downloaded in full.
C1_Witness ==
    /\ pc = "done"
    /\ media_count = 3
    /\ outcome[1] = "failed"
    /\ \A j \in {0, 2} :
          /\ outcome[j] = "downloaded"
          /\ resp[j].len > 0
          /\ HoldsBody(j)

\* ---------------------------------------------------------------- C2
\* C2: at most 2 tasks are started and not finished; and item k has been
\* started only if all but one of the items before it have finished.
C2_ConcurrencyCap ==
    /\ Cardinality(Running) <= 2
    /\ \A k \in Items :
          tpc[k] # "queued" =>
              Cardinality({j \in Items : j < k /\ tpc[j] = "finished"}) >= k - 1

\* The third item runs beside another one, after one task has finished.
C2_Witness ==
    /\ media_count = 3
    /\ tpc[2] \notin {"queued", "finished"}
    /\ Cardinality(Running) = 2
    /\ Cardinality(Finished) = 1

\* ---------------------------------------------------------------- C3
\* C3: once "Done" is printed or main_ has returned Ok, the stream is
\* exhausted and every item's task has finished as skipped, downloaded or
\* failed.
C3_DoneAfterAll ==
    (pc = "done" \/ <<"Done">> \in printed \/ result = "Ok") =>
        /\ next = media_count
        /\ Running = {}
        /\ \A i \in Items : tpc[i] = "finished" /\ outcome[i] \in Ended

\* Done although the first task failed; the later ones ran to their end.
C3_Witness ==
    /\ pc = "done"
    /\ <<"Done">> \in printed
    /\ media_count = 3
    /\ outcome[0] = "failed"
    /\ outcome[1] = "skipped"
    /\ outcome[2] = "downloaded"

\* ---------------------------------------------------------------- C4
C4_SkipStep ==
    \A i \in Items :
        (tpc[i] \in {"open", "metadata"} /\ Matches(i)) =>
            /\ files'[Path(i)] = files[Path(i)]
            /\ i \notin requests'
            /\ resp'[i] = NoResp
            /\ tpc'[i] \in {"open", "metadata", "finished"}
            /\ tpc'[i] = "finished" =>
                  \/ outcome'[i] = "skipped"
                  \/ /\ outcome'[i] = "failed"
                     /\ \E e \in {"open", "metadata"} : <<"Failed", i, e>> \in printed'

C4_Skipped ==
    /\ \A i \in Items :
          outcome[i] = "skipped" =>
              /\ Matches(i)
              /\ i \notin requests
              /\ <<"Downloading", i>> \notin printed
              /\ resp[i] = NoResp
    /\ (pc = "done" /\ \A i \in Items : outcome[i] = "skipped") =>
          requests = {} /\ albumResp = "ok"

\* C4: a task whose destination file exists with exactly the reported size
\* leaves the file as it is, sends no media request and, when the file is
\* opened and its length read, ends as skipped; a run in which every item is
\* skipped has sent the album request only.
C4_SkipIsSilent == [][C4_SkipStep]_vars /\ []C4_Skipped

\* A second run: every file has the reported size, two of them are not empty.
C4_Witness ==
    /\ pc = "done"
    /\ media_count = 3
    /\ \A i \in Items : outcome[i] = "skipped" /\ Matches(i)
    /\ album[0].size = 2
    /\ album[1].size = 1
    /\ files[Path(0)] = File(OldData(2))

\* ---------------------------------------------------------------- C5
\* C5: a task that ended as downloaded has left exactly the body of its
\* response in the destination file, from byte zero, nothing of the previous
\* content; and only a file of the reported size is ever skipped.
C5_FullRedownload ==
    \A i \in Items :
        /\ outcome[i] = "downloaded" => HoldsBody(i) /\ pos[i] = resp[i].len
        /\ outcome[i] = "skipped" => Matches(i)

\* Downloaded: a body shorter than the reported size and than MaxSize.
C5_Witness ==
    \E i \in Items :
        /\ outcome[i] = "downloaded"
        /\ resp[i] = [status |-> "ok", len |-> 1]
        /\ album[i].size = 2
        /\ files[Path(i)].data = <<(<<"ok", i, 1>>)>>

\* ---------------------------------------------------------------- C6
\* C6: when the album request fails, is answered with a non-success status
\* or with a body that does not parse, main_ has returned an error, and
\* create_dir_all was not called, no destination file was opened, no media
\* request was sent and no task was created.
C6_MetadataFatal ==
    albumResp \in {"send_err", "bad_status", "bad_json"} =>
        /\ pc = "exit"
        /\ result = "Err(" \o albumResp \o ")"
        /\ ~created
        /\ opened = {}
        /\ requests = {}
        /\ next = 0
        /\ Items = {}

\* The album request got a 404; the directory still does not exist.
C6_Witness ==
    /\ albumResp = "bad_status"
    /\ pc = "exit"
    /\ result = "Err(bad_status)"
    /\ ~dir

\* ---------------------------------------------------------------- C7
\* C7: an item whose media request was answered with a non-success status
\* ends as failed, with a "Failed" line printed for it.
C7_BadStatusFails ==
    \A i \in Items :
        (tpc[i] = "finished" /\ resp[i].status = "bad") =>
            /\ outcome[i] = "failed"
            /\ \E e \in {"send", "copy"} : <<"Failed", i, e>> \in printed

\* ---------------------------------------------------------------- C8
\* C8: once the album request and create_dir_all have succeeded, main_
\* returns nothing but Ok, whatever the items' outcomes; an Err comes from the
\* album request or from create_dir_all, before any task was created.
C8_ItemsNeverFailRun ==
    /\ pc = "done" => result = "Ok"
    /\ pc = "stream" => result = "none"
    /\ result \notin {"none", "Ok"} =>
          /\ pc = "exit"
          /\ next = 0
          /\ \/ albumResp # "ok" /\ result = "Err(" \o albumResp \o ")"
             \/ albumResp = "ok" /\ created /\ result = "Err(create_dir_all)"

\* Every item of a three item album failed, main_ returned Ok.
C8_Witness ==
    /\ pc = "done"
    /\ result = "Ok"
    /\ media_count = 3
    /\ \A i \in Items : outcome[i] = "failed"

C10_IdValid ==
    parsed # NotParsed =>
        LET slashes == {k \in 1..Len(arg) : arg[k] = "/"}
            alnum == \A k \in 1..Len(arg) : arg[k] \in AlNum
            badTail == \A k \in slashes :
                          \/ k = Len(arg)
                          \/ \E m \in (k + 1)..Len(arg) : arg[m] \notin AlNum
        IN  /\ arg = <<>> => ~parsed.ok
            /\ (Len(arg) > 0 /\ arg[Len(arg)] = "/") => ~parsed.ok
            /\ (~alnum /\ badTail) => ~parsed.ok
            /\ ~parsed.ok => parsed = Err("invalid album")
            /\ parsed.ok =>
                  /\ Len(parsed.value) > 0
                  /\ \A k \in 1..Len(parsed.value) : parsed.value[k] \in AlNum

\* An id followed by a slash is refused.
C10_Witness ==
    /\ arg = <<"a", "Z", "/">>
    /\ parsed = Err("invalid album")

\* ---------------------------------------------------------------- C11
\* a is before b in lexicographic order (sequences of digits).
LexLess(a, b) ==
    \E k \in 1..(Len(b)) :
        /\ \A m \in 1..(k - 1) : m <= Len(a) /\ a[m] = b[m]
        /\ \/ k = Len(a) + 1
           \/ k <= Len(a) /\ a[k] < b[k]

\* C11: the part of a file name before the '.' has as many characters as
\* count - 1 has decimal digits and is the zero padded decimal of the index;
\* the name of a smaller index is lexicographically smaller.
C11_FixedWidth ==
    (probe.fn = "file_name" /\ probe.called) =>
        LET width == Len(Decimal(probe.count - 1))
            padded(i) == Zeroes(width - Len(Decimal(i))) \o Decimal(i)
        IN  /\ Len(probe.name[1]) = width
            /\ probe.name[1] = padded(probe.index)
            /\ probe.name2[1] = padded(probe.index2)
            /\ probe.index < probe.index2 => LexLess(probe.name[1], probe.name2[1])

\* ---------------------------------------------------------------- C12
\* C12: digits_in_decmial_representation(n) is the number of characters of
\* the decimal representation of n.
C12_DigitsExact ==
    (probe.fn = "digits" /\ probe.called) =>
        probe.digits = Len(Decimal(probe.n))

\* ---------------------------------------------------------------- C14
\* C14: the names computed for two different indices of one album differ,
\* whatever the extensions, and neither call panics.
C14_DistinctPaths ==
    (probe.fn = "file_name" /\ probe.called /\ probe.index # probe.index2) =>
        /\ probe.name # probe.name2
        /\ probe.name[1] # probe.name2[1]
        /\ probe.name # Panic
        /\ probe.name2 # Panic

\* Indices 1 and 11 of a 13 item album with the same extension: 01 and 11.
C14_Witness ==
    /\ probe.called
    /\ probe.count = 13
    /\ probe.index = 11
    /\ probe.index2 = 1
    /\ probe.ext = probe.ext2
    /\ probe.name = <<(<<1, 1>>), "jpg">>
    /\ probe.name2 = <<(<<0, 1>>), "jpg">>

\* ---------------------------------------------------------------- C17
\* C17: every item whose task has been created has an index below
\* media_count, its file_name call does not panic (the assertion holds and
\* max_digits - index_digits is not negative); no more tasks are created
\* than there are items, so none for an empty album; and a run that reaches
\* completion has created the directory and printed "Done".
C17_NamePrecondition ==
    /\ next <= media_count
    /\ \A i \in Items :
          tpc[i] # "queued" =>
              /\ 0 <= i /\ i < next
              /\ Path(i) # Panic
              /\ digits_in_decmial_representation(media_count - 1)
                     >= digits_in_decmial_representation(i)
    /\ media_count = 0 => next = 0 /\ Running = {} /\ opened = {}
    /\ pc = "done" => created /\ dir /\ <<"Done">> \in printed

\* The last item of a three item album has been given its path.
C17_Witness ==
    /\ media_count = 3
    /\ next = 3
    /\ tpc[2] = "open"
    /\ Path(2) = <<(<<2>>), "jpg">>

\* ---------------------------------------------------------------- C15
\* A step of task i alone.
TaskStep(i) ==
    \/ Open(i)
    \/ Metadata(i)
    \/ SetLen(i)
    \/ GetMedia(i)
    \/ CopyChunk(i)
    \/ CopyFail(i)
    \/ CopyEof(i)

\* C15: while items remain and a slot is free the next task can be started,
\* whatever the tasks in flight are doing, and every task in flight can take
\* its next step whatever the other tasks are doing.
C15_ConcurrencyIsReal ==
    /\ (pc = "stream" /\ next < media_count /\ Cardinality(Running) < Limit)
           => ENABLED StartTask
    /\ \A i \in Running : ENABLED TaskStep(i)

\* Item 0 is in the middle of its copy while item 1, started after it, has
\* written a byte too and item 2 waits for a slot.
C15_Witness ==
    /\ media_count = 3
    /\ next = 2
    /\ tpc[0] = "copy" /\ pos[0] = 1 /\ resp[0].len = 2
    /\ tpc[1] = "copy" /\ pos[1] = 1 /\ resp[1].len = 2

\* ---------------------------------------------------------------- C16
\* The bytes of item i's response written so far.
Written(i) == SubSeq(Body(resp[i].status, i, resp[i].len), 1, pos[i])

\* C16: a task past open() has its file on disk; no request is issued and
\* nothing is written before the truncation; at the request the file is
\* empty, and it stays empty when the request fails; during and after the
\* copy the file holds the prefix of the body written so far, also when the
\* copy fails.
C16_StepOrder ==
    \A i \in Items :
        /\ tpc[i] \in {"metadata", "set_len", "send", "copy"} =>
               i \in opened /\ files[Path(i)].exists
        /\ tpc[i] \in {"queued", "open", "metadata", "set_len"} =>
               i \notin requests /\ pos[i] = 0 /\ resp[i] = NoResp
        /\ i \in requests => i \in opened /\ <<"Downloading", i>> \in printed
        /\ pos[i] > 0 => i \in requests /\ resp[i] # NoResp
        /\ tpc[i] = "send" => files[Path(i)] = File(<<>>)
        /\ <<"Failed", i, "send">> \in printed => files[Path(i)] = File(<<>>)
        /\ (tpc[i] = "copy" \/ <<"Failed", i, "copy">> \in printed
                \/ outcome[i] = "downloaded") =>
               files[Path(i)] = File(Written(i))

\* Item 0's request failed and its file is empty although the album reports
\* one byte; item 1's copy failed after the first of two bytes.
C16_Witness ==
    /\ media_count = 2
    /\ album[0].size = 1
    /\ <<"Failed", 0, "send">> \in printed
    /\ files[Path(0)] = File(<<>>)
    /\ <<"Failed", 1, "copy">> \in printed
    /\ resp[1].len = 2
    /\ files[Path(1)] = File(<<(<<"ok", 1, 1>>)>>)

\* ---------------------------------------------------------------- C13
\* C13: once the fan-out has begun, the run eventually reports completion
\* with every item's task started and finished, each with an outcome.
C13_AllAttempted ==
    (pc = "stream") ~>
        (/\ pc = "done"
         /\ <<"Done">> \in printed
         /\ next = media_count
         /\ \A i \in Items : tpc[i] = "finished" /\ outcome[i] # "none")

\* Item 0 failed, item 1 was skipped, and item 2, which had to wait for one
\* of their slots, was downloaded.
C13_Witness ==
    /\ pc = "done"
    /\ media_count = 3
    /\ outcome[0] = "failed"
    /\ outcome[1] = "skipped"
    /\ outcome[2] = "downloaded"
    /\ resp[2].len = 2

\* ---------------------------------------------------------------- C18
\* The body the media URL serves for the server's item i.
TrueBody(i) == Body("ok", i, server[i].len)

\* A task leaves the size comparison without an error.
C18_Decides(i) ==
    /\ tpc[i] = "metadata"
    /\ tpc'[i] # "metadata"
    /\ outcome'[i] # "failed"

C18_Step ==
    \A i \in Items :
        C18_Decides(i) =>
            LET same == Len(files[Path(i)].data) = album[i].size
            IN  /\ outcome'[i] = "skipped" <=> same
                /\ tpc'[i] = "set_len" <=> ~same
                /\ files' = files

\* C18: in every run, a task that gets past the size comparison skips exactly
\* when the file's length equals the reported size, whatever the file holds
\* and whatever an earlier run did; so a skipped file has the reported length
\* and a file whose length differs from it is never skipped.
C18_SizeEqualityOnly ==
    /\ [][C18_Step]_vars
    /\ [](\A i \in Items :
             outcome[i] = "skipped" =>
                 Len(files[Path(i)].data) = album[i].size)

\* The server reports 1 byte for item 0 and serves 2: a copy that failed
\* after one byte in an earlier run left a file of the reported size that is
\* not the body, and this run skips it.
C18_Witness ==
    /\ 0 \in Items
    /\ server[0].size = 1
    /\ server[0].len = 2
    /\ outcome[0] = "skipped"
    /\ files[Path(0)] = File(<<(<<"ok", 0, 1>>)>>)
    /\ files[Path(0)].data # TrueBody(0)

\* ---------------------------------------------------------------- C19
\* Every reported size is the length of the body served.
HonestSizes == \A i \in DOMAIN server : server[i].size = server[i].len

\* C19: with honest sizes, over any number of runs from an empty directory,
\* a file whose length is the reported size holds the complete body, and a
\* skipped item's file is the complete body.
C19_SkipKeepsOnlyComplete ==
    HonestSizes =>
        \A i \in DOMAIN server :
            /\ (files[ServerPath(i)].exists
                  /\ Len(files[ServerPath(i)].data) = server[i].size)
                   => files[ServerPath(i)].data = TrueBody(i)
            /\ (i \in Items /\ outcome[i] = "skipped")
                   => files[ServerPath(i)] = File(TrueBody(i))

\* A later run skips item 0, whose two byte body an earlier run completed,
\* and downloads again item 1, which an earlier run left with one byte of
\* two: it has been truncated and the request sent.
C19_Witness ==
    /\ HonestSizes
    /\ DOMAIN server = {0, 1}
    /\ server[0].len = 2
    /\ server[1].len = 2
    /\ Items = {0, 1}
    /\ outcome[0] = "skipped"
    /\ files[ServerPath(0)] = File(TrueBody(0))
    /\ tpc[1] = "copy"
    /\ pos[1] = 2
    /\ files[ServerPath(1)] = File(TrueBody(1))

====
